---------------------------- MODULE Spec2Model ----------------------------
(***************************************************************************)
(* Model of the noteboks language server (lsp/noteboks-lsp): the note      *)
(* identity resolver, the index of notes with its scan / open / edit       *)
(* operations, and the request handlers of the backend that share the      *)
(* index behind one lock.                                                  *)
(*                                                                         *)
(* Text (file names, link texts, buffers) is the sequence of its UTF-8      *)
(* bytes, an ASCII byte written as its character, so that matching,        *)
(* trimming and slicing are computed the way the code computes them.       *)
(*                                                                         *)
(* Specifications:                                                         *)
(*   Spec      the index under scan and the open, change and hover         *)
(*             handlers, interleaved at their lock operations;             *)
(*   SpecMain  the service as main starts it (no scan);                    *)
(*   SpecOrder change events on a scanned index, with the result of        *)
(*             applying them in version order recorded;                    *)
(*   SpecScan  scans of the vaults of Vaults, the walk order recorded;     *)
(*   SpecLink  from_link on the link texts of LinkInputs;                  *)
(*   SpecPath  from_path and to_filename on the file names of PathInputs;  *)
(*   SpecText  one edit of a scanned note to a buffer of BufferTexts, then *)
(*             hovers over it;                                             *)
(*   SpecParse change events on a scanned index where a parse may give no  *)
(*             tree, the notes before each edit recorded;                  *)
(*   SpecLive  the handlers on a scanned index, the steps of a handler that*)
(*             holds a lock taken fairly.                                  *)
(***************************************************************************)
EXTENDS Integers, Sequences, FiniteSets, TLC

(***************************************************************************)
(* Bounds of the model.                                                    *)
(***************************************************************************)
\* longest name part of a link text handed to from_link
MaxNameLen == 3

\* requests the transport has in flight at once
NumHandlers == 2

\* highest document version a change event carries
MaxVersion == 2

\* most directory entries in a vault that is scanned
MaxFiles == 3

(***************************************************************************)
(* Option values.                                                          *)
(***************************************************************************)
None == [some |-> FALSE]

Some(v) == [some |-> TRUE, val |-> v]

SetMax(S) == CHOOSE x \in S : \A y \in S : y <= x

SetMin(S) == CHOOSE x \in S : \A y \in S : x <= y

SeqsUpTo(S, n) == UNION {[1..k -> S] : k \in 0..n}

(***************************************************************************)
(* Characters.  WordChars stands for the regex classes \w and \d (the      *)
(* letters, digits and underscore that occur in the model's texts),        *)
(* WhiteSpace for \s and for what str::trim strips.  The one character of  *)
(* the model's texts that is not ASCII is the letter e with acute accent   *)
(* (U+00E9): two bytes in UTF-8, written "C3" and "A9", and one UTF-16     *)
(* unit.                                                                   *)
(***************************************************************************)
\* the bytes of U+00E9
EAcute == <<"C3", "A9">>

\* the bytes 10xxxxxx, which continue a character
ContinuationBytes == {"A9"}

WordChars ==
    {"A", "B", "F", "Z", "a", "b", "c", "d", "e", "g", "i", "l", "m", "n",
     "o", "p", "r", "s", "t", "u", "x", "1", "_", "C3", "A9"}

WhiteSpace == {" ", "\t", "\n"}

\* the character class [_\-\?\:\/\\\w\d ] of from_link's regex
NameChars == WordChars \cup {"_", "-", "?", ":", "/", "\\", " "}

(***************************************************************************)
(* NoteKind                                                                *)
(***************************************************************************)
NoteKind == {"Note", "Article", "List", "Index", "Dump"}

KwNote == <<"n", "o", "t", "e">>

KwArticle == <<"a", "r", "t", "i", "c", "l", "e">>

KwList == <<"l", "i", "s", "t">>

KwIndex == <<"i", "n", "d", "e", "x">>

KwDump == <<"d", "u", "m", "p">>

\* NoteKind::from_str
NoteKind_from_str(s) ==
    CASE s = KwNote -> Some("Note")
      [] s = KwArticle -> Some("Article")
      [] s = KwList -> Some("List")
      [] s = KwIndex -> Some("Index")
      [] s = KwDump -> Some("Dump")
      [] OTHER -> None

\* NoteKind::to_str
NoteKind_to_str(k) ==
    CASE k = "Note" -> KwNote
      [] k = "Article" -> KwArticle
      [] k = "List" -> KwList
      [] k = "Index" -> KwIndex
      [] k = "Dump" -> KwDump

(***************************************************************************)
(* std::path::Path::file_stem and Path::extension on a file name: the name *)
(* is split at its last dot; a name without a dot, or whose only dot is    *)
(* its first character, has no extension and is its own stem; ".." is no   *)
(* file name.                                                              *)
(***************************************************************************)
SplitDots(f) == {i \in 2..Len(f) : f[i] = "."}

Path_file_stem(f) ==
    IF f = <<>> \/ f = <<".", ".">> THEN None
    ELSE IF SplitDots(f) = {} THEN Some(f)
    ELSE Some(SubSeq(f, 1, SetMax(SplitDots(f)) - 1))

Path_extension(f) ==
    IF f = <<>> \/ f = <<".", ".">> THEN None
    ELSE IF SplitDots(f) = {} THEN None
    ELSE Some(SubSeq(f, SetMax(SplitDots(f)) + 1, Len(f)))

\* NoteKind::from_path
NoteKind_from_path(f) ==
    IF Path_extension(f).some THEN NoteKind_from_str(Path_extension(f).val) ELSE None

(***************************************************************************)
(* NoteID                                                                  *)
(***************************************************************************)
MkNoteID(name, kind) == [name |-> name, kind |-> kind]

\* NoteID::from_path, on the file name of the path
NoteID_from_path(f) ==
    IF ~Path_file_stem(f).some THEN None
    ELSE IF ~NoteKind_from_path(f).some THEN None
    ELSE Some(MkNoteID(Path_file_stem(f).val, NoteKind_from_path(f).val))

\* NoteID::from_uri: Url::to_file_path succeeds for file: URIs only
NoteID_from_uri(uri) ==
    IF uri.scheme # "file" THEN None ELSE NoteID_from_path(uri.file)

\* NoteID::to_filename
NoteID_to_filename(id) == id.name \o <<".">> \o NoteKind_to_str(id.kind)

\* str::trim
Trim(s) ==
    LET keep == {i \in 1..Len(s) : s[i] \notin WhiteSpace}
    IN  IF keep = {} THEN <<>> ELSE SubSeq(s, SetMin(keep), SetMax(keep))

\* str::trim_matches(&['(', ')'])
TrimParens(s) ==
    LET keep == {i \in 1..Len(s) : s[i] \notin {"(", ")"}}
    IN  IF keep = {} THEN <<>> ELSE SubSeq(s, SetMin(keep), SetMax(keep))

\* the strings the regex group (?<kind>(?:\((?:note|article|list|index|dump)\))?) matches
KindGroup ==
    {<<>>} \cup {<<"(">> \o k \o <<")">> : k \in {KwNote, KwArticle, KwList, KwIndex, KwDump}}

\* the kind group of the regex, as a predicate on the text it must cover
KindGroupMatches(rest) == rest \in KindGroup

\* \s*(?<kind>...)$ : the split points of rest into white space and a kind group
RestSplits(rest) ==
    {j \in 0..Len(rest) :
        /\ \A k \in 1..j : rest[k] \in WhiteSpace
        /\ KindGroupMatches(SubSeq(rest, j + 1, Len(rest)))}

\* ^(?<name>[...]+) : the lengths of a name prefix after which the rest matches
NameSplits(link) ==
    {i \in 1..Len(link) :
        /\ \A k \in 1..i : link[k] \in NameChars
        /\ RestSplits(SubSeq(link, i + 1, Len(link))) # {}}

\* a mutant of from_link: the captured name is used untrimmed
NoteID_from_link_NoTrim(link) ==
    LET splits == NameSplits(link)
        i == SetMax(splits)
        rest == SubSeq(link, i + 1, Len(link))
        kind_str == SubSeq(rest, SetMax(RestSplits(rest)) + 1, Len(rest))
        k == NoteKind_from_str(TrimParens(kind_str))
    IN  IF splits = {} THEN None
        ELSE Some(MkNoteID(SubSeq(link, 1, i), IF k.some THEN k.val ELSE "Note"))

\* NoteID::from_link: both quantifiers are greedy, so the name capture is the
\* longest prefix that lets the rest match
NoteID_from_link(link) ==
    LET splits == NameSplits(link)
        i == SetMax(splits)
        name == SubSeq(link, 1, i)
        rest == SubSeq(link, i + 1, Len(link))
        kind_str == SubSeq(rest, SetMax(RestSplits(rest)) + 1, Len(rest))
        k == NoteKind_from_str(TrimParens(kind_str))
    IN  IF splits = {} THEN None
        ELSE Some(MkNoteID(Trim(name), IF k.some THEN k.val ELSE "Note"))

(***************************************************************************)
(* Texts of the specifications that serve requests.  They are ASCII: byte  *)
(* offsets, tree-sitter columns and LSP columns coincide in them.          *)
(***************************************************************************)
TxtLinkB == <<"[", "[", "B", "]", "]">>

TxtX == <<"x">>

TxtLinkA == <<"[", "[", "A", "]", "]">>

TxtLinkAList == <<"[", "[", "A", " ", "(", "l", "i", "s", "t", ")", "]", "]">>

FileANote == <<"A", ".", "n", "o", "t", "e">>

FileBList == <<"B", ".", "l", "i", "s", "t">>

FileZNote == <<"Z", ".", "n", "o", "t", "e">>

FileCTxt == <<"C", ".", "t", "x", "t">>

(***************************************************************************)
(* FullTextDocument (crate lsp_textdocument), as the index uses it: a      *)
(* content and a version.                                                  *)
(***************************************************************************)
Position(line, character) == [line |-> line, character |-> character]

Range(start, end) == [start |-> start, end |-> end]

\* FullTextDocument::new
NewDocument(version, content) == [text |-> content, version |-> version]

\* offsets (0-based) at which the lines of text start
LineOffsets(text) ==
    <<0>> \o [k \in 1..Cardinality({i \in 1..Len(text) : text[i] = "\n"}) |->
                LET nl == {i \in 1..Len(text) : text[i] = "\n"}
                IN  CHOOSE i \in nl : Cardinality({j \in nl : j <= i}) = k]

\* the offsets of the line from start to next at which a character begins
CharStarts(text, start, next) ==
    {o \in start..(next - 1) : text[o + 1] \notin ContinuationBytes}

\* FullTextDocument::offset_at: the byte offset of a position, whose character
\* counts the UTF-16 units of its line (one for each character of the model's
\* texts); a position past the end of its line is clamped to the end of the
\* line, a line past the last one to the end of the content
Doc_offset_at(text, pos) ==
    LET lo == LineOffsets(text)
    IN  IF pos.line >= Len(lo) THEN Len(text)
        ELSE LET start == lo[pos.line + 1]
                 next == IF pos.line + 2 <= Len(lo) THEN lo[pos.line + 2] ELSE Len(text)
                 cs == CharStarts(text, start, next)
             IN  IF pos.character < Cardinality(cs)
                 THEN CHOOSE o \in cs : Cardinality({q \in cs : q < o}) = pos.character
                 ELSE next

\* FullTextDocument::get_content(Some(range))
Doc_get_content(text, range) ==
    SubSeq(text, Doc_offset_at(text, range.start) + 1, Doc_offset_at(text, range.end))

\* one TextDocumentContentChangeEvent applied to a content: a range is replaced,
\* or, without a range, the whole content
ApplyEdit(text, edit) ==
    IF ~edit.range.some THEN edit.text
    ELSE LET s == Doc_offset_at(text, edit.range.val.start)
             e == Doc_offset_at(text, edit.range.val.end)
         IN  SubSeq(text, 1, s) \o edit.text \o SubSeq(text, e + 1, Len(text))

\* a mutant of the update: of the edits of an event only the last is applied
ApplyEdits_LastOnly(text, changes) ==
    IF changes = <<>> THEN text ELSE ApplyEdit(text, changes[Len(changes)])

RECURSIVE ApplyEdits(_, _)
ApplyEdits(text, changes) ==
    IF changes = <<>> THEN text
    ELSE ApplyEdits(ApplyEdit(text, Head(changes)), Tail(changes))

\* FullTextDocument::update(&changes, version): the edits in order, then the
\* version is overwritten; the version is not compared with the old one
Doc_update(doc, changes, version) ==
    [text |-> ApplyEdits(doc.text, changes), version |-> version]

(***************************************************************************)
(* The syntax tree (crates tree_sitter, tree_sitter_org).  A tree is the   *)
(* sequence of the children of its root: link nodes "[[uri]]" with a uri   *)
(* field, and text nodes for the runs between them.  Nodes carry 0-based   *)
(* half-open byte spans and (row, column) points, as computed at parse     *)
(* time.                                                                   *)
(***************************************************************************)
Point(row, column) == [row |-> row, column |-> column]

\* the point of a byte offset: its row, and as column the bytes since the
\* start of the row

PointAt(text, off) ==
    LET nl == {i \in 1..off : text[i] = "\n"}
    IN  Point(Cardinality(nl), IF nl = {} THEN off ELSE off - SetMax(nl))

Span(text, sb, eb) ==
    [start_byte |-> sb, end_byte |-> eb,
     start_position |-> PointAt(text, sb), end_position |-> PointAt(text, eb)]

\* the link that starts at index i (1-based) of text, if one does
LinkAt(text, i) ==
    IF ~(i + 1 <= Len(text) /\ text[i] = "[" /\ text[i + 1] = "[") THEN None
    ELSE LET stops == {j \in (i + 2)..Len(text) : text[j] \in {"[", "]", "\n"}}
         IN  IF stops = {} THEN None
             ELSE LET j == SetMin(stops)
                  IN  IF j > i + 2 /\ text[j] = "]" /\ j + 1 <= Len(text) /\ text[j + 1] = "]"
                      THEN Some([kind |-> "link",
                                 span |-> Span(text, i - 1, j + 1),
                                 uri |-> Some(Span(text, i + 1, j - 1))])
                      ELSE None

TextNode(text, sb, eb) == [kind |-> "text", span |-> Span(text, sb, eb), uri |-> None]

\* the children from index i on; from is the index where the pending text run began
RECURSIVE ParseFrom(_, _, _)
ParseFrom(text, i, from) ==
    IF i > Len(text)
    THEN IF from < i THEN <<TextNode(text, from - 1, i - 1)>> ELSE <<>>
    ELSE IF LinkAt(text, i).some
         THEN (IF from < i THEN <<TextNode(text, from - 1, i - 1)>> ELSE <<>>)
              \o <<LinkAt(text, i).val>>
              \o ParseFrom(text, LinkAt(text, i).val.span.end_byte + 1,
                           LinkAt(text, i).val.span.end_byte + 1)
         ELSE ParseFrom(text, i + 1, from)

TreeOf(text) == [end_byte |-> Len(text), children |-> ParseFrom(text, 1, 1)]

\* Parser::parse(content, None): a full parse; none when the parser has no
\* language to parse with
Parser_parse(ready, text) == IF ready THEN Some(TreeOf(text)) ELSE None

(***************************************************************************)
(* Note                                                                    *)
(***************************************************************************)
\* Note::new
Note_new(id) == [id |-> id, document |-> None, tree |-> None, outlinks |-> {}]

\* the matches of the query (link uri: "uri" @uri) @link
LinkMatches(tree) ==
    {k \in 1..Len(tree.children) :
        tree.children[k].kind = "link" /\ tree.children[k].uri.some}

\* the text update_links hands to from_link for one match: the content between
\* the uri node's start and end points, taken as document positions
LinkSource(text, node) ==
    Doc_get_content(text,
        Range(Position(node.uri.val.start_position.row, node.uri.val.start_position.column),
              Position(node.uri.val.end_position.row, node.uri.val.end_position.column)))

\* the identities update_links collects from a tree and a document: the
\* matches whose source from_link resolves
ExtractLinks(tree, text) ==
    LET found == {NoteID_from_link(LinkSource(text, tree.children[k])) : k \in LinkMatches(tree)}
    IN  {f.val : f \in {g \in found : g.some}}

\* a mutant of update_links: without a tree the links are left as they were
Note_update_links_KeepWithoutTree(note) ==
    IF note.tree.some /\ note.document.some
    THEN [note EXCEPT !.outlinks = ExtractLinks(note.tree.val, note.document.val.text)]
    ELSE note

\* Note::update_links
Note_update_links(note) ==
    [note EXCEPT !.outlinks =
        IF note.tree.some /\ note.document.some
        THEN ExtractLinks(note.tree.val, note.document.val.text)
        ELSE {}]

(***************************************************************************)
(* Directory entries of the vault, as WalkDir yields them.                 *)
(***************************************************************************)
Entry(dir, file, ftype, readable, content) ==
    [dir |-> dir, file |-> file, ftype |-> ftype, readable |-> readable, content |-> content]

EntA == Entry("root", FileANote, "file", TRUE, TxtLinkB)

EntA2 == Entry("sub", FileANote, "file", TRUE, TxtX)

EntB == Entry("root", FileBList, "file", TRUE, TxtLinkAList)

EntTxt == Entry("root", FileCTxt, "file", TRUE, TxtLinkA)

EntUnreadable == Entry("root", FileZNote, "file", FALSE, <<>>)

EntSymlink == Entry("link", FileZNote, "symlink", TRUE, TxtX)

\* Note::of_file: none when the file cannot be read as text or its path gives
\* no identity (the grammar is taken to carry a language name)
Note_of_file(entry) ==
    IF ~entry.readable THEN None
    ELSE IF ~NoteID_from_path(entry.file).some THEN None
    ELSE Some([Note_new(NoteID_from_path(entry.file).val)
                 EXCEPT !.document = Some(NewDocument(0, entry.content))])

(***************************************************************************)
(* Index                                                                   *)
(***************************************************************************)
\* a mutant of the insertion: the map is started afresh with the new entry
MapInsert_Afresh(ns, id, note) == [k \in {id} |-> note]

\* BTreeMap::insert
MapInsert(ns, id, note) == [k \in DOMAIN ns \cup {id} |-> IF k = id THEN note ELSE ns[k]]

\* the closure of update_tree: the parse of the note's document, none when
\* the note is missing or has no document
Index_parse_note(ns, id, ready) ==
    IF id \notin DOMAIN ns THEN None
    ELSE IF ~ns[id].document.some THEN None
    ELSE Parser_parse(ready, ns[id].document.val.text)

\* a mutant of update_tree's write: when the parse gave none the tree stays
Index_write_tree_KeepTree(ns, id, new_tree) ==
    IF id \in DOMAIN ns
    THEN [notes |-> [ns EXCEPT ![id] = Note_update_links(
                        [@ EXCEPT !.tree = IF new_tree.some THEN new_tree ELSE @])],
          r |-> TRUE]
    ELSE [notes |-> ns, r |-> FALSE]

\* a mutant of update_tree's write: the links are left as they were
Index_write_tree_NoLinks(ns, id, new_tree) ==
    IF id \in DOMAIN ns
    THEN [notes |-> [ns EXCEPT ![id] = [@ EXCEPT !.tree = new_tree]], r |-> TRUE]
    ELSE [notes |-> ns, r |-> FALSE]

\* the second half of update_tree: the tree is stored, the links are rebuilt
Index_write_tree(ns, id, new_tree) ==
    IF id \in DOMAIN ns
    THEN [notes |-> [ns EXCEPT ![id] = Note_update_links([@ EXCEPT !.tree = new_tree])],
          r |-> TRUE]
    ELSE [notes |-> ns, r |-> FALSE]

\* Index::update_tree as one call (scan calls it with the index to itself)
Index_update_tree(ns, id, ready) == Index_write_tree(ns, id, Index_parse_note(ns, id, ready))

\* a mutant of the scan loop: the note is inserted and not parsed
ScanEntry_NoParse(ns, entry, ready) ==
    LET note == Note_of_file(entry)
    IN  IF entry.ftype # "file" THEN ns
        ELSE IF ~note.some THEN ns
        ELSE MapInsert(ns, note.val.id, note.val)

\* a mutant of the scan loop: an identity already in the index is kept
ScanEntry_FirstWins(ns, entry, ready) ==
    LET note == Note_of_file(entry)
    IN  IF entry.ftype # "file" THEN ns
        ELSE IF ~note.some THEN ns
        ELSE IF note.val.id \in DOMAIN ns THEN ns
        ELSE Index_update_tree(MapInsert(ns, note.val.id, note.val), note.val.id, ready).notes

\* the body of the scan loop for one directory entry that the walk yields:
\* only regular files pass the filter
ScanEntry(ns, entry, ready) ==
    LET note == Note_of_file(entry)
    IN  IF entry.ftype # "file" THEN ns
        ELSE IF ~note.some THEN ns
        ELSE Index_update_tree(MapInsert(ns, note.val.id, note.val), note.val.id, ready).notes

\* Index::scan over the entries in the order the walk yields them
RECURSIVE Index_scan(_, _, _)
Index_scan(ns, order, ready) ==
    IF order = <<>> THEN ns
    ELSE Index_scan(ScanEntry(ns, Head(order), ready), Tail(order), ready)

\* Index::note_at_uri and note_at_uri_mut: the key looked up, if the uri gives one
Index_note_at_uri(ns, uri) ==
    IF ~NoteID_from_uri(uri).some THEN None
    ELSE IF NoteID_from_uri(uri).val \notin DOMAIN ns THEN None
    ELSE Some(NoteID_from_uri(uri).val)

\* Index::handle_open: a document is built from the item and dropped
Index_handle_open(ns, uri, version, text) == [notes |-> ns, r |-> FALSE]

\* a mutant of handle_edit: an unknown note is created from the edits
Index_edit_document_Upsert(ns, uri, changes, version) ==
    IF Index_note_at_uri(ns, uri).some
    THEN [found |-> TRUE,
          notes |-> [ns EXCEPT ![NoteID_from_uri(uri).val].document =
                        IF @.some THEN Some(Doc_update(@.val, changes, version)) ELSE @]]
    ELSE IF NoteID_from_uri(uri).some
    THEN [found |-> TRUE,
          notes |-> MapInsert(ns, NoteID_from_uri(uri).val,
                      [Note_new(NoteID_from_uri(uri).val)
                         EXCEPT !.document = Some(NewDocument(version, ApplyEdits(<<>>, changes)))])]
    ELSE [found |-> FALSE, notes |-> ns]

\* the first half of handle_edit: the note is looked up and its document, if
\* it has one, updated
Index_edit_document(ns, uri, changes, version) ==
    IF Index_note_at_uri(ns, uri).some
    THEN [found |-> TRUE,
          notes |-> [ns EXCEPT ![NoteID_from_uri(uri).val].document =
                        IF @.some THEN Some(Doc_update(@.val, changes, version)) ELSE @]]
    ELSE [found |-> FALSE, notes |-> ns]

\* Index::handle_edit as one call
Index_handle_edit(ns, uri, changes, version, ready) ==
    LET e == Index_edit_document(ns, uri, changes, version)
    IN  IF e.found
        THEN Index_update_tree(e.notes, NoteID_from_uri(uri).val, ready)
        ELSE [notes |-> ns, r |-> FALSE]

(***************************************************************************)
(* Requests of the transport.                                              *)
(***************************************************************************)
Uri(scheme, file) == [scheme |-> scheme, file |-> file]

UriA == Uri("file", FileANote)

UriZ == Uri("file", FileZNote)

UriHttp == Uri("http", FileANote)

EditFull(text) == [range |-> None, text |-> text]

EditRange(start, end, text) == [range |-> Some(Range(start, end)), text |-> text]

\* The ranges of the edits have their start before their end (the document's
\* update panics on one that has not, which stops the service).
\* a full replacement, then an edit of a range of its result: gives "[[Z]]"
BatchTwo == <<EditFull(TxtLinkB), EditRange(Position(0, 2), Position(0, 3), <<"Z">>)>>

\* everything after the first character is deleted
BatchCut == <<EditRange(Position(0, 1), Position(1, 0), <<>>)>>

Batches == {BatchTwo, BatchCut}

Req(kind, uri, version, changes, text, position) ==
    [kind |-> kind, uri |-> uri, version |-> version, changes |-> changes,
     text |-> text, position |-> position]

NoReq == Req("none", UriHttp, 0, <<>>, <<>>, Position(0, 0))

ChangeReqs ==
    {Req("change", UriA, v, b, <<>>, Position(0, 0)) : v \in 1..MaxVersion, b \in Batches}
    \cup {Req("change", u, 1, BatchTwo, <<>>, Position(0, 0)) : u \in {UriZ, UriHttp}}

OpenReqs == {Req("open", u, 1, <<>>, TxtLinkA, Position(0, 0)) : u \in {UriA, UriZ}}

HoverReqs == {Req("hover", u, 0, <<>>, <<>>, Position(0, 2)) : u \in {UriA, UriZ}}

Handlers == 1..NumHandlers

Free == 0

Idle == [pc |-> "idle", req |-> NoReq, r |-> FALSE, new_tree |-> None, hover |-> None]

\* the vault of the specifications that serve requests: two files of one identity
ServedVault == {EntA, EntA2, EntB}

\* the vaults that are scanned in SpecScan
Vaults ==
    {v \in SUBSET {EntA, EntA2, EntB, EntTxt, EntUnreadable, EntSymlink} :
        Cardinality(v) <= MaxFiles}

\* the orders in which a walk can yield the entries of a vault
WalkOrders(v) ==
    {o \in [1..Cardinality(v) -> v] : \A i, j \in 1..Cardinality(v) : o[i] = o[j] => i = j}

(***************************************************************************)
(* The link texts from_link is applied to in SpecLink.                     *)
(***************************************************************************)
NameAlphabet == {"F", "o", " ", "-"}

LinkNames == SeqsUpTo(NameAlphabet, MaxNameLen) \ {<<>>}

KwBogus == <<"b", "o", "g", "u", "s">>

Keywords == {KwNote, KwArticle, KwList, KwIndex, KwDump}

Suffix(k) == <<" ", "(">> \o k \o <<")">>

LinkInputs ==
    {<<>>, <<"F", "]">>, <<"(", "n", "o", "t", "e", ")">>}
    \cup LinkNames
    \cup {n \o Suffix(k) : n \in LinkNames, k \in Keywords \cup {KwBogus, <<"a", "r", "t">>}}
    \cup {n \o <<"(">> \o KwList \o <<")">> : n \in LinkNames}

(***************************************************************************)
(* The file names from_path is applied to in SpecPath: a stem, and after   *)
(* a dot one of the extensions.                                            *)
(***************************************************************************)
\* longest stem of a file name handed to from_path
MaxStemLen == 3

StemAlphabet == {"A", "b", "."}

Stems == SeqsUpTo(StemAlphabet, MaxStemLen) \ {<<>>}

ExtArt == <<"a", "r", "t">>

ExtTxt == <<"t", "x", "t">>

Extensions == Keywords \cup {ExtArt, ExtTxt}

FileName(stem, ext) == stem \o <<".">> \o ext

PathInputs == Stems \cup {FileName(n, e) : n \in Stems, e \in Extensions}

\* what a call of from_path, and of to_filename on its identity, gives
PathResult(f) ==
    [id |-> NoteID_from_path(f),
     filename |-> IF NoteID_from_path(f).some
                  THEN Some(NoteID_to_filename(NoteID_from_path(f).val))
                  ELSE None]

(***************************************************************************)
(* The buffers of SpecText: up to MaxParts pieces in a row, among them     *)
(* links that resolve, a link that does not, a character of two bytes and  *)
(* a line break.                                                           *)
(***************************************************************************)
\* most pieces of a buffer
MaxParts == 4

\* highest character of a hover position
MaxCol == 5

TxtLinkDot == <<"[", "[", ".", "]", "]">>

Pieces == {TxtLinkB, TxtLinkAList, TxtLinkDot, EAcute, <<"\n">>}

RECURSIVE Concat(_)
Concat(ps) == IF ps = <<>> THEN <<>> ELSE Head(ps) \o Concat(Tail(ps))

BufferTexts == {Concat(ps) : ps \in SeqsUpTo(Pieces, MaxParts)}

\* the contents of the file A.note that is scanned in SpecText
InitTexts == {TxtLinkB, TxtX}

HoverPositions == {Position(l, c) : l \in 0..1, c \in 0..MaxCol}

\* the hovers of SpecText: over A.note at these positions, and over a file
\* that is not in the vault
TextHovers ==
    {[uri |-> UriA, position |-> p] : p \in HoverPositions}
    \cup {[uri |-> UriZ, position |-> Position(0, 2)]}

NotApplied == [applied |-> FALSE]

Applied(v) == [applied |-> TRUE, result |-> v]

(***************************************************************************)
(* State                                                                   *)
(***************************************************************************)
VARIABLES
    vault,        \* the directory entries under the root
    notes,        \* Index.notes: NoteID -> Note
    parserReady,  \* whether the parser was given a language
    indexLock,    \* Backend.index: the handler holding the lock, or Free
    parserLock,   \* Index.parser: the handler holding the lock, or Free
    hs,           \* the handlers: position, request and locals of each
    scanned,      \* history: scan has run
    walk,         \* history: the order in which the last scan met the entries
    seq,          \* history: per note, the text that the change events
                  \* dispatched so far give when applied in version order
    prev,         \* history: the notes as the last handle_edit found them
    linkIn,       \* the argument of from_link (SpecLink)
    linkOut,      \* its result, once applied (SpecLink)
    pathIn,       \* the argument of from_path (SpecPath)
    pathOut,      \* its result, once applied (SpecPath)
    hov           \* the last hover call and its answer (SpecText)

vars ==
    <<vault, notes, parserReady, indexLock, parserLock, hs, scanned, walk, seq, prev,
      linkIn, linkOut, pathIn, pathOut, hov>>

indexVars == <<vault, notes, parserReady, indexLock, parserLock, hs, scanned, walk, seq, prev>>

\* the variables of the calls that the index takes no part in
otherVars == <<linkIn, linkOut, pathIn, pathOut, hov>>

\* the note a request is about, if its uri gives an identity
ReqId(req) == NoteID_from_uri(req.uri)

\* a change for id has been dispatched and has not returned
ChangeInFlight(id) ==
    \E h \in Handlers :
        /\ hs[h].pc # "idle"
        /\ hs[h].req.kind = "change"
        /\ ReqId(hs[h].req) = Some(id)

OutOfOrder == [ok |-> FALSE]

InOrder(text, version) == [ok |-> TRUE, text |-> text, version |-> version]

InitIndex ==
    /\ notes = <<>>
    /\ indexLock = Free
    /\ parserLock = Free
    /\ hs = [h \in Handlers |-> Idle]
    /\ scanned = FALSE
    /\ walk = <<>>
    /\ seq = <<>>
    /\ prev = <<>>
    /\ pathIn = <<>>
    /\ pathOut = NotApplied
    /\ hov = NotApplied

\* Index::new, and a vault on disk.  Index::new takes any parser: one that
\* was given no language parses nothing.
Init ==
    /\ InitIndex
    /\ vault = ServedVault
    /\ parserReady \in BOOLEAN
    /\ linkIn = <<>>
    /\ linkOut = NotApplied

(***************************************************************************)
(* Index::scan, called with the index to itself.                           *)
(***************************************************************************)
ScanIn(order) ==
    /\ indexLock = Free
    /\ parserLock = Free
    /\ notes' = Index_scan(notes, order, parserReady)
    /\ scanned' = TRUE
    /\ UNCHANGED <<vault, parserReady, indexLock, parserLock, hs, prev, otherVars>>

Scan == \E order \in WalkOrders(vault) : ScanIn(order) /\ UNCHANGED <<walk, seq>>

(***************************************************************************)
(* The transport hands a request to a handler (Backend::did_open,          *)
(* did_change, hover); the handler first logs, without the lock.           *)
(***************************************************************************)
Dispatch(h, req) ==
    /\ hs[h].pc = "idle"
    /\ hs' = [hs EXCEPT ![h] = [Idle EXCEPT !.pc = "log", !.req = req]]

DidOpen(h) ==
    /\ \E req \in OpenReqs : Dispatch(h, req)
    /\ UNCHANGED <<vault, notes, parserReady, indexLock, parserLock, scanned, walk, seq,
                   prev, otherVars>>

DidChangeReq(h, req) ==
    /\ Dispatch(h, req)
    /\ UNCHANGED <<vault, notes, parserReady, indexLock, parserLock, scanned, walk,
                   prev, otherVars>>

DidChange(h) == \E req \in ChangeReqs : DidChangeReq(h, req) /\ UNCHANGED seq

DidHover(h) ==
    /\ \E req \in HoverReqs : Dispatch(h, req)
    /\ UNCHANGED <<vault, notes, parserReady, indexLock, parserLock, scanned, walk, seq,
                   prev, otherVars>>

\* a mutant of the lock: it is handed out while it is held
CanLock_Always(h) == TRUE

\* tokio Mutex::lock().await completes when nobody holds the lock
CanLock(h) == indexLock = Free

(***************************************************************************)
(* Backend::did_open: the lock is taken for the call of handle_open.       *)
(***************************************************************************)
OpenHandle(h) ==
    /\ hs[h].pc = "log"
    /\ hs[h].req.kind = "open"
    /\ CanLock(h)
    /\ indexLock' = h
    /\ LET res == Index_handle_open(notes, hs[h].req.uri, hs[h].req.version, hs[h].req.text)
       IN  /\ notes' = res.notes
           /\ hs' = [hs EXCEPT ![h].pc = "ret", ![h].r = res.r]
    /\ UNCHANGED <<vault, parserReady, parserLock, scanned, walk, seq, prev, otherVars>>

(***************************************************************************)
(* Backend::did_change: the lock is taken for the call of handle_edit,     *)
(* which updates the document, parses under the parser's lock, and writes  *)
(* the tree and the links back.                                            *)
(***************************************************************************)
ChangeEditIn(h) ==
    /\ hs[h].pc = "log"
    /\ hs[h].req.kind = "change"
    /\ CanLock(h)
    /\ indexLock' = h
    /\ LET res == Index_edit_document(notes, hs[h].req.uri, hs[h].req.changes,
                                      hs[h].req.version)
       IN  /\ notes' = res.notes
           /\ hs' = [hs EXCEPT ![h].pc = IF res.found THEN "edited" ELSE "ret",
                               ![h].r = FALSE]
    /\ UNCHANGED <<vault, parserReady, parserLock, scanned, walk, seq, otherVars>>

ChangeEdit(h) == ChangeEditIn(h) /\ UNCHANGED prev

\* the same step, with the notes it found recorded
ChangeEditRecorded(h) == ChangeEditIn(h) /\ prev' = notes

ChangeParserLock(h) ==
    /\ hs[h].pc = "edited"
    /\ parserLock = Free
    /\ parserLock' = h
    /\ hs' = [hs EXCEPT ![h].pc = "parsing"]
    /\ UNCHANGED <<vault, notes, parserReady, indexLock, scanned, walk, seq, prev, otherVars>>

\* a mutant of the parse step: the guard of the parser's lock is kept
ChangeParse_KeepsParser(h) ==
    /\ hs[h].pc = "parsing"
    /\ hs' = [hs EXCEPT ![h].pc = "parsed",
                        ![h].new_tree =
                            Index_parse_note(notes, ReqId(hs[h].req).val, parserReady)]
    /\ UNCHANGED <<vault, notes, parserReady, indexLock, parserLock, scanned, walk, seq,
                   prev, otherVars>>

ChangeParse(h) ==
    /\ hs[h].pc = "parsing"
    /\ parserLock' = Free
    /\ hs' = [hs EXCEPT ![h].pc = "parsed",
                        ![h].new_tree =
                            Index_parse_note(notes, ReqId(hs[h].req).val, parserReady)]
    /\ UNCHANGED <<vault, notes, parserReady, indexLock, scanned, walk, seq, prev, otherVars>>

\* Parser::parse gives none (SpecParse)
ChangeParseNone(h) ==
    /\ hs[h].pc = "parsing"
    /\ parserLock' = Free
    /\ hs' = [hs EXCEPT ![h].pc = "parsed", ![h].new_tree = None]
    /\ UNCHANGED <<vault, notes, parserReady, indexLock, scanned, walk, seq, prev, otherVars>>

ChangeWrite(h) ==
    /\ hs[h].pc = "parsed"
    /\ LET res == Index_write_tree(notes, ReqId(hs[h].req).val, hs[h].new_tree)
       IN  /\ notes' = res.notes
           /\ hs' = [hs EXCEPT ![h].pc = "ret", ![h].r = res.r, ![h].new_tree = None]
    /\ UNCHANGED <<vault, parserReady, indexLock, parserLock, scanned, walk, seq,
                   prev, otherVars>>

(***************************************************************************)
(* Backend::hover: the lock is held from the lookup to the end of the      *)
(* traversal.                                                              *)
(***************************************************************************)
PointLess(p, q) == p.row < q.row \/ (p.row = q.row /\ p.column < q.column)

\* TreeCursor::goto_first_child_for_point from the root, until a link or a leaf:
\* the first child that ends after the point
NodeForPoint(tree, pt) ==
    LET after == {k \in 1..Len(tree.children) :
                     PointLess(pt, tree.children[k].span.end_position)}
    IN  IF after = {} THEN None ELSE Some(tree.children[SetMin(after)])

\* the hover text: the bytes of the uri field of the link under the point
HoverText(note, pt) ==
    IF ~note.tree.some \/ ~note.document.some THEN None
    ELSE LET node == NodeForPoint(note.tree.val, pt)
         IN  IF node.some /\ node.val.kind = "link" /\ node.val.uri.some
             THEN Some(SubSeq(note.document.val.text,
                              node.val.uri.val.start_byte + 1, node.val.uri.val.end_byte))
             ELSE None

\* Backend::hover as one call: the note is looked up and its tree traversed
\* with the position taken as a point
Backend_hover(ns, uri, position) ==
    IF ~Index_note_at_uri(ns, uri).some THEN None
    ELSE HoverText(ns[NoteID_from_uri(uri).val], Point(position.line, position.character))

HoverLookup(h) ==
    /\ hs[h].pc = "log"
    /\ hs[h].req.kind = "hover"
    /\ CanLock(h)
    /\ indexLock' = h
    /\ hs' = [hs EXCEPT ![h].pc =
                 IF Index_note_at_uri(notes, hs[h].req.uri).some THEN "note" ELSE "ret"]
    /\ UNCHANGED <<vault, notes, parserReady, parserLock, scanned, walk, seq, prev, otherVars>>

HoverTraverse(h) ==
    /\ hs[h].pc = "note"
    /\ hs' = [hs EXCEPT ![h].pc = "ret",
                        ![h].hover =
                            HoverText(notes[ReqId(hs[h].req).val],
                                      Point(hs[h].req.position.line,
                                            hs[h].req.position.character))]
    /\ UNCHANGED <<vault, notes, parserReady, indexLock, parserLock, scanned, walk, seq,
                   prev, otherVars>>

\* the guard of the lock is dropped and the handler returns
Return(h) ==
    /\ hs[h].pc = "ret"
    /\ indexLock' = Free
    /\ hs' = [hs EXCEPT ![h] = Idle]
    /\ UNCHANGED <<vault, notes, parserReady, parserLock, scanned, walk, seq, prev, otherVars>>

(***************************************************************************)
(* Spec: the index with its public operations (scan, and the handlers of   *)
(* the backend over handle_open and handle_edit), in any order.            *)
(***************************************************************************)
Next ==
    \/ Scan
    \/ \E h \in Handlers :
        \/ DidOpen(h)
        \/ DidChange(h)
        \/ DidHover(h)
        \/ OpenHandle(h)
        \/ ChangeEdit(h)
        \/ ChangeParserLock(h)
        \/ ChangeParse(h)
        \/ ChangeWrite(h)
        \/ HoverLookup(h)
        \/ HoverTraverse(h)
        \/ Return(h)

Spec == Init /\ [][Next]_vars

(***************************************************************************)
(* SpecMain: the service as main starts it.  main builds the index with    *)
(* Index::new and serves; it does not call scan, and the parser was given  *)
(* its language.  No step of MainNext puts a note in the index, so the     *)
(* steps of handle_edit and hover that need one are not among them.        *)
(***************************************************************************)
InitMain ==
    /\ InitIndex
    /\ vault = ServedVault
    /\ parserReady = TRUE
    /\ linkIn = <<>>
    /\ linkOut = NotApplied

MainNext ==
    \E h \in Handlers :
        \/ DidOpen(h)
        \/ DidChange(h)
        \/ DidHover(h)
        \/ OpenHandle(h)
        \/ ChangeEdit(h)
        \/ HoverLookup(h)
        \/ Return(h)

SpecMain == InitMain /\ [][MainNext]_vars

(***************************************************************************)
(* SpecScan: a scan of a vault drawn from Vaults, with the order of the    *)
(* walk recorded.                                                          *)
(***************************************************************************)
InitScan ==
    /\ InitIndex
    /\ vault \in Vaults
    /\ parserReady \in BOOLEAN
    /\ linkIn = <<>>
    /\ linkOut = NotApplied

ScanVault ==
    \E order \in WalkOrders(vault) : ScanIn(order) /\ walk' = order /\ UNCHANGED seq

SpecScan == InitScan /\ [][ScanVault]_vars

(***************************************************************************)
(* SpecOrder: change events on a scanned index, with the text recorded     *)
(* that the events dispatched so far give when they are applied one after  *)
(* another in the order of their versions (none once a version was not     *)
(* above the one before it).                                               *)
(***************************************************************************)
InitOrder ==
    /\ vault = ServedVault
    /\ parserReady = TRUE
    /\ \E order \in WalkOrders(ServedVault) : notes = Index_scan(<<>>, order, TRUE)
    /\ indexLock = Free
    /\ parserLock = Free
    /\ hs = [h \in Handlers |-> Idle]
    /\ scanned = TRUE
    /\ walk = <<>>
    /\ seq = [id \in DOMAIN notes |-> InOrder(notes[id].document.val.text, 0)]
    /\ prev = <<>>
    /\ pathIn = <<>>
    /\ pathOut = NotApplied
    /\ hov = NotApplied
    /\ linkIn = <<>>
    /\ linkOut = NotApplied

DidChangeOrdered(h) ==
    \E req \in ChangeReqs :
        /\ DidChangeReq(h, req)
        /\ seq' = IF ReqId(req).some /\ ReqId(req).val \in DOMAIN seq
                  THEN [seq EXCEPT ![ReqId(req).val] =
                          IF @.ok /\ req.version > @.version
                          THEN InOrder(ApplyEdits(@.text, req.changes), req.version)
                          ELSE OutOfOrder]
                  ELSE seq

OrderNext ==
    \E h \in Handlers :
        \/ DidChangeOrdered(h)
        \/ ChangeEdit(h)
        \/ ChangeParserLock(h)
        \/ ChangeParse(h)
        \/ ChangeWrite(h)
        \/ Return(h)

SpecOrder == InitOrder /\ [][OrderNext]_vars

(***************************************************************************)
(* SpecParse: change events on a scanned index whose parser is taken as    *)
(* its interface gives it: Parser::parse returns a tree, or none for a     *)
(* parser without a language or a parse that was stopped, so any call may  *)
(* give none.  The notes each handle_edit found are recorded.              *)
(***************************************************************************)
InitParse ==
    /\ vault = ServedVault
    /\ parserReady \in BOOLEAN
    /\ \E order \in WalkOrders(ServedVault) : notes = Index_scan(<<>>, order, parserReady)
    /\ indexLock = Free
    /\ parserLock = Free
    /\ hs = [h \in Handlers |-> Idle]
    /\ scanned = TRUE
    /\ walk = <<>>
    /\ seq = <<>>
    /\ prev = <<>>
    /\ linkIn = <<>>
    /\ linkOut = NotApplied
    /\ pathIn = <<>>
    /\ pathOut = NotApplied
    /\ hov = NotApplied

ParseNext ==
    \E h \in Handlers :
        \/ DidChange(h)
        \/ ChangeEditRecorded(h)
        \/ ChangeParserLock(h)
        \/ ChangeParse(h)
        \/ ChangeParseNone(h)
        \/ ChangeWrite(h)
        \/ Return(h)

SpecParse == InitParse /\ [][ParseNext]_vars

(***************************************************************************)
(* SpecLive: open, change and hover handlers on a scanned index, every     *)
(* handler that has the index lock taking its next step when it can: it    *)
(* runs handle_edit (the parse included, which returns) or the traversal   *)
(* of hover to the end and returns.                                        *)
(***************************************************************************)
\* the requests of SpecLive: one of each handler for A.note, and a change for
\* a file that is not in the vault
LiveReqs ==
    {r \in ChangeReqs : r.version = 1 /\ r.changes = BatchTwo /\ r.uri \in {UriA, UriZ}}
    \cup {r \in OpenReqs \cup HoverReqs : r.uri = UriA}

LiveDispatch(h) ==
    /\ \E req \in LiveReqs : Dispatch(h, req)
    /\ UNCHANGED <<vault, notes, parserReady, indexLock, parserLock, scanned, walk, seq,
                   prev, otherVars>>

\* the steps of a handler that has the index lock
LockedStep(h) ==
    \/ ChangeParserLock(h)
    \/ ChangeParse(h)
    \/ ChangeWrite(h)
    \/ HoverTraverse(h)
    \/ Return(h)

\* the steps of a handler after its log message
HandlerStep(h) ==
    \/ OpenHandle(h)
    \/ ChangeEdit(h)
    \/ HoverLookup(h)
    \/ LockedStep(h)

LiveNext == \E h \in Handlers : LiveDispatch(h) \/ HandlerStep(h)

SpecLive == InitParse /\ [][LiveNext]_vars /\ \A h \in Handlers : WF_vars(LockedStep(h))

(***************************************************************************)
(* SpecLink: from_link applied to a link text drawn from LinkInputs.       *)
(***************************************************************************)
InitLink ==
    /\ InitIndex
    /\ vault = {}
    /\ parserReady = TRUE
    /\ linkIn \in LinkInputs
    /\ linkOut = NotApplied

FromLinkCall ==
    /\ linkOut = NotApplied
    /\ linkOut' = Applied(NoteID_from_link(linkIn))
    /\ UNCHANGED <<indexVars, linkIn, pathIn, pathOut, hov>>

SpecLink == InitLink /\ [][FromLinkCall]_vars

(***************************************************************************)
(* SpecPath: from_path applied to a file name drawn from PathInputs, and   *)
(* to_filename to the identity it gives.                                   *)
(***************************************************************************)
InitPath ==
    /\ notes = <<>>
    /\ indexLock = Free
    /\ parserLock = Free
    /\ hs = [h \in Handlers |-> Idle]
    /\ scanned = FALSE
    /\ walk = <<>>
    /\ seq = <<>>
    /\ prev = <<>>
    /\ vault = {}
    /\ parserReady = TRUE
    /\ linkIn = <<>>
    /\ linkOut = NotApplied
    /\ pathIn \in PathInputs
    /\ pathOut = NotApplied
    /\ hov = NotApplied

FromPathCall ==
    /\ pathOut = NotApplied
    /\ pathOut' = Applied(PathResult(pathIn))
    /\ UNCHANGED <<indexVars, linkIn, linkOut, pathIn, hov>>

SpecPath == InitPath /\ [][FromPathCall]_vars

(***************************************************************************)
(* SpecText: the index called by one caller: a scan of a vault with the    *)
(* file A.note, then one change event that replaces its buffer by a text   *)
(* of BufferTexts, and hovers.                                             *)
(***************************************************************************)
InitText ==
    /\ parserReady \in BOOLEAN
    /\ \E t \in InitTexts :
          /\ vault = {Entry("root", FileANote, "file", TRUE, t)}
          /\ notes = Index_scan(<<>>, <<Entry("root", FileANote, "file", TRUE, t)>>,
                                parserReady)
    /\ indexLock = Free
    /\ parserLock = Free
    /\ hs = [h \in Handlers |-> Idle]
    /\ scanned = TRUE
    /\ walk = <<>>
    /\ seq = <<>>
    /\ prev = <<>>
    /\ linkIn = <<>>
    /\ linkOut = NotApplied
    /\ pathIn = <<>>
    /\ pathOut = NotApplied
    /\ hov = NotApplied

TextEdit ==
    /\ prev = <<>>
    /\ \E t \in BufferTexts :
          notes' = Index_handle_edit(notes, UriA, <<EditFull(t)>>, 1, parserReady).notes
    /\ prev' = notes
    /\ hov' = NotApplied
    /\ UNCHANGED <<vault, parserReady, indexLock, parserLock, hs, scanned, walk, seq,
                   linkIn, linkOut, pathIn, pathOut>>

TextHover ==
    /\ \E q \in TextHovers :
          hov' = Applied([uri |-> q.uri, position |-> q.position,
                          result |-> Backend_hover(notes, q.uri, q.position)])
    /\ UNCHANGED <<indexVars, linkIn, linkOut, pathIn, pathOut>>

TextNext == TextEdit \/ TextHover

SpecText == InitText /\ [][TextNext]_vars

(***************************************************************************)
(* Properties                                                              *)
(***************************************************************************)
\* positions of a handler at which it holds the index lock
LockedPcs == {"edited", "parsing", "parsed", "note", "ret"}

\* a change handler has updated the document of id and not yet written its tree
MidEdit(id) ==
    \E h \in Handlers :
        /\ hs[h].pc \in {"edited", "parsing", "parsed"}
        /\ ReqId(hs[h].req) = Some(id)

\* the tree and the links of a note are those of its present buffer
Consistent(note) ==
    /\ note.document.some
    /\ note.tree = Parser_parse(parserReady, note.document.val.text)
    /\ note.outlinks = IF note.tree.some
                       THEN ExtractLinks(note.tree.val, note.document.val.text)
                       ELSE {}

\* C1: between operations (no change handler is between its buffer update and
\* its write of the tree), every note of the index has the tree that is the
\* parse of its present buffer, or none when that parse fails, and the links
\* extracted from that tree and buffer.
C1_TreeAndLinksOfCurrentBuffer ==
    \A id \in DOMAIN notes : ~MidEdit(id) => Consistent(notes[id])

\* C1 witness: a note whose buffer a change event replaced, with the links of
\* the new buffer.
C1_Witness ==
    \E id \in DOMAIN notes :
        /\ ~MidEdit(id)
        /\ notes[id].document.val.version > 0
        /\ notes[id].document.val.text = <<"[", "[", "Z", "]", "]">>
        /\ notes[id].outlinks = {MkNoteID(<<"Z">>, "Note")}

\* C2 (as claimed): when an open event whose uri gives an identity has been
\* handled, the index has a note of that identity whose buffer is the event's
\* text.
C2_OpenStoresBuffer ==
    \A h \in Handlers :
        (hs[h].pc = "ret" /\ hs[h].req.kind = "open" /\ ReqId(hs[h].req).some)
            => /\ ReqId(hs[h].req).val \in DOMAIN notes
               /\ notes[ReqId(hs[h].req).val].document.some
               /\ notes[ReqId(hs[h].req).val].document.val.text = hs[h].req.text

\* the uri of a request gives an identity that is a key of the index
Known(req) == ReqId(req).some /\ ReqId(req).val \in DOMAIN notes

\* C3: the step of a change handler that takes the lock and looks its note up,
\* for a uri that gives no identity of the index, ends the call with false and
\* leaves the index as it was; and a change handler that returns true is about
\* a note of the index.
C3_UnknownChangeFails ==
    [][\A h \in Handlers :
          /\ (hs[h].pc = "log" /\ hs[h].req.kind = "change" /\ hs'[h].pc # "log"
                /\ ~Known(hs[h].req))
                => (hs'[h].pc = "ret" /\ hs'[h].r = FALSE /\ notes' = notes)
          /\ (hs'[h].pc = "ret" /\ hs'[h].req.kind = "change" /\ hs'[h].r)
                => ReqId(hs'[h].req).val \in DOMAIN notes']_vars

\* C3 witness: a change for a note that is not in a scanned index has failed.
C3_Witness ==
    \E h \in Handlers :
        /\ hs[h].pc = "ret"
        /\ hs[h].req.kind = "change"
        /\ hs[h].req.uri = UriZ
        /\ hs[h].r = FALSE
        /\ DOMAIN notes # {}

\* C4 (as claimed): the step of a change handler that takes the lock, for a
\* known note whose document has a version not below the event's, ends the
\* call with false and leaves the index as it was.
C4_StaleChangeRefused ==
    [][\A h \in Handlers :
          (/\ hs[h].pc = "log" /\ hs[h].req.kind = "change" /\ hs'[h].pc # "log"
           /\ Known(hs[h].req)
           /\ notes[ReqId(hs[h].req).val].document.some
           /\ hs[h].req.version <= notes[ReqId(hs[h].req).val].document.val.version)
              => (hs'[h].pc = "ret" /\ hs'[h].r = FALSE /\ notes' = notes)]_vars

\* C5 (as claimed): once the change events for a note, dispatched with
\* strictly increasing versions, have all returned, the note's buffer is the
\* text that applying them one after another in version order gives.
C5_ConcurrentEqualsSequential ==
    \A id \in DOMAIN notes :
        (~ChangeInFlight(id) /\ seq[id].ok /\ notes[id].document.some)
            => notes[id].document.val.text = seq[id].text

\* C6: at most one handler holds the index lock, a handler past its lookup
\* holds it until it returns, and while a hover traverses a note no change
\* handler is between its buffer update and its write of the tree, so the
\* note it reads is consistent.
C6_HandlersExclusive ==
    /\ \A g, h \in Handlers :
          (hs[g].pc \in LockedPcs /\ hs[h].pc \in LockedPcs) => g = h
    /\ \A h \in Handlers : hs[h].pc \in LockedPcs <=> indexLock = h
    /\ \A h \in Handlers :
          hs[h].pc = "note"
              => /\ ~MidEdit(ReqId(hs[h].req).val)
                 /\ Consistent(notes[ReqId(hs[h].req).val])

\* C6 witness: a hover traverses a note that a change event has edited, while
\* a change handler for the same note waits for the lock.
C6_Witness ==
    \E g, h \in Handlers :
        /\ hs[h].pc = "note"
        /\ notes[ReqId(hs[h].req).val].document.val.version > 0
        /\ hs[g].pc = "log"
        /\ hs[g].req.kind = "change"
        /\ hs[g].req.uri = hs[h].req.uri

\* C7 (as claimed): when a handler has taken the index lock for a request, the
\* scan has run.
C7_ScanBeforeFirstRequest ==
    (\E h \in Handlers : hs[h].pc \in LockedPcs) => scanned

\* the entries of the vault that scan makes notes of, by the claim: regular
\* files whose path gives an identity and whose content can be read
Indexable(e) == e.ftype = "file" /\ e.readable /\ NoteID_from_path(e.file).some

\* the last entry of the walk that is indexable with identity id
LastDiscovered(id) ==
    walk[SetMax({k \in 1..Len(walk) :
                    Indexable(walk[k]) /\ NoteID_from_path(walk[k].file).val = id})]

\* C8: after a scan the keys of the index are the identities of the indexable
\* entries, and each note holds the content of the entry of its identity that
\* the walk met last.
C8_ScanIndexesReadableNotes ==
    scanned =>
        /\ DOMAIN notes = {NoteID_from_path(e.file).val : e \in {x \in vault : Indexable(x)}}
        /\ \A id \in DOMAIN notes :
              notes[id].document = Some(NewDocument(0, LastDiscovered(id).content))

\* C8 witness: a vault with two files of one identity and a file that is
\* skipped has been scanned, and the file met first lost.
C8_Witness ==
    /\ scanned
    /\ {EntA, EntA2} \subseteq vault
    /\ vault \cap {EntTxt, EntUnreadable} # {}
    /\ walk[1] \in {EntTxt, EntUnreadable}
    /\ \E id \in DOMAIN notes :
          /\ id = MkNoteID(<<"A">>, "Note")
          /\ notes[id].document.val.text = walk[3].content

\* C9 (as claimed): a link text "<name> (bogus)" gives the identity
\* (<name>, Note).
C9_BogusKeywordGivesNote ==
    \A n \in LinkNames :
        (linkOut.applied /\ linkIn = n \o Suffix(KwBogus))
            => linkOut.result = Some(MkNoteID(Trim(n), "Note"))

\* the kind each recognized keyword stands for
KeywordKinds ==
    {<<KwNote, "Note">>, <<KwArticle, "Article">>, <<KwList, "List">>,
     <<KwIndex, "Index">>, <<KwDump, "Dump">>}

\* C10 (as claimed): "<name>" gives (<name>, Note), "<name> (k)" gives
\* (<name> stripped, kind(k)), and the empty text gives none.
C10_FromLinkLiteral ==
    linkOut.applied =>
        /\ linkIn = <<>> => linkOut.result = None
        /\ \A n \in LinkNames :
              /\ linkIn = n => linkOut.result = Some(MkNoteID(n, "Note"))
              /\ \A kk \in KeywordKinds :
                    linkIn = n \o Suffix(kk[1])
                        => linkOut.result = Some(MkNoteID(Trim(n), kk[2]))

\* C10 (amended): "<name>" gives (<name> stripped, Note), "<name> (k)" gives
\* (<name> stripped, kind(k)), and the empty text gives none.
C10_FromLink ==
    linkOut.applied =>
        /\ linkIn = <<>> => linkOut.result = None
        /\ \A n \in LinkNames :
              /\ linkIn = n => linkOut.result = Some(MkNoteID(Trim(n), "Note"))
              /\ \A kk \in KeywordKinds :
                    linkIn = n \o Suffix(kk[1])
                        => linkOut.result = Some(MkNoteID(Trim(n), kk[2]))

\* C10 witness: "Foo (article)" has given (Foo, Article).
C10_Witness ==
    /\ linkIn = <<"F", "o", "o">> \o Suffix(KwArticle)
    /\ linkOut = Applied(Some(MkNoteID(<<"F", "o", "o">>, "Article")))


\* the kind each extension of the file-system contract stands for
ExtensionKinds ==
    {<<KwNote, "Note">>, <<ExtArt, "Article">>, <<KwList, "List">>,
     <<KwIndex, "Index">>, <<KwDump, "Dump">>}

\* C11 (as claimed): for each of the extensions note, art, list, index and
\* dump, from_path of "<name>.<extension>" gives the identity (<name>, kind of
\* the extension), a different kind for each extension, and to_filename of
\* that identity gives "<name>.<extension>" back.
C11_ExtensionRoundTrip ==
    pathOut.applied =>
        \A n \in Stems : \A ek \in ExtensionKinds :
            pathIn = FileName(n, ek[1])
                => /\ pathOut.result.id = Some(MkNoteID(n, ek[2]))
                   /\ pathOut.result.filename = Some(pathIn)


\* the text a node's byte span covers
SpanText(text, span) == SubSeq(text, span.start_byte + 1, span.end_byte)

\* the identities that the uri texts of the link constructs of a tree resolve to
ResolvedLinks(tree, text) ==
    LET ids == {NoteID_from_link(SpanText(text, tree.children[k].uri.val)) :
                   k \in LinkMatches(tree)}
    IN  {i.val : i \in {j \in ids : j.some}}

\* C12 (as claimed): after a link extraction the links of a note are the
\* identities that the uri texts of the link constructs of its tree resolve
\* to, no more and no less; they are none when the tree has no link construct.
C12_LinksAreResolvedUris ==
    \A id \in DOMAIN notes :
        (notes[id].tree.some /\ notes[id].document.some)
            => notes[id].outlinks =
                   ResolvedLinks(notes[id].tree.val, notes[id].document.val.text)

\* C18 (as claimed): for every link match of a note, the text that
\* update_links takes from the buffer at the points of the uri node, and
\* hands to from_link, is the text of the buffer that the uri node covers.
C18_SourceIsUriText ==
    \A id \in DOMAIN notes :
        (notes[id].tree.some /\ notes[id].document.some)
            => \A k \in LinkMatches(notes[id].tree.val) :
                  LinkSource(notes[id].document.val.text, notes[id].tree.val.children[k])
                      = SpanText(notes[id].document.val.text,
                                 notes[id].tree.val.children[k].uri.val)


\* the byte offset of the character a position of a buffer denotes, none when
\* the buffer has no such line or the line no such character
CharOffset(text, pos) ==
    LET lo == LineOffsets(text)
        start == lo[pos.line + 1]
        next == IF pos.line + 2 <= Len(lo) THEN lo[pos.line + 2] ELSE Len(text)
    IN  IF pos.line >= Len(lo) THEN None
        ELSE IF pos.character >= Cardinality(CharStarts(text, start, next)) THEN None
        ELSE Some(Doc_offset_at(text, pos))

\* the link constructs of a tree whose uri covers a byte offset
UriLinksAt(tree, off) ==
    {k \in LinkMatches(tree) :
        /\ tree.children[k].uri.val.start_byte <= off
        /\ off < tree.children[k].uri.val.end_byte}

\* the link constructs of a tree that cover a byte offset
LinksAt(tree, off) ==
    {k \in 1..Len(tree.children) :
        /\ tree.children[k].kind = "link"
        /\ tree.children[k].span.start_byte <= off
        /\ off < tree.children[k].span.end_byte}

\* C13 (as claimed): a hover for a uri with no note in the index, or whose note
\* has no tree, or at a position of the buffer outside every link construct,
\* is answered with nothing; a hover at a position of the buffer inside the
\* uri of a link construct is answered with the text of that uri in the
\* buffer.
C13_HoverGivesUriText ==
    hov.applied =>
        LET id == NoteID_from_uri(hov.result.uri)
        IN  IF ~id.some \/ id.val \notin DOMAIN notes THEN hov.result.result = None
            ELSE IF ~notes[id.val].tree.some THEN hov.result.result = None
            ELSE LET text == notes[id.val].document.val.text
                     tree == notes[id.val].tree.val
                     off == CharOffset(text, hov.result.position)
                 IN  /\ (~off.some \/ LinksAt(tree, off.val) = {})
                            => hov.result.result = None
                     /\ (off.some /\ UriLinksAt(tree, off.val) # {})
                            => \A k \in UriLinksAt(tree, off.val) :
                                  hov.result.result =
                                      Some(SpanText(text, tree.children[k].uri.val))


\* C14: no step of scan or of an open, change or hover handler takes a key
\* out of the index: every identity that is a key before a step is a key
\* after it.
C14_NotesNeverRemoved == [][DOMAIN notes \subseteq DOMAIN notes']_vars

\* C14 witness: on an index of two notes, a change has been applied to one and
\* another handler has served an open or a hover.
C14_Witness ==
    /\ Cardinality(DOMAIN notes) = 2
    /\ \E g, h \in Handlers :
          /\ hs[g].pc = "ret" /\ hs[g].req.kind = "change" /\ hs[g].r
          /\ hs[h].pc = "log" /\ hs[h].req.kind \in {"open", "hover"}
          /\ \E id \in DOMAIN notes : notes[id].document.val.version > 0


\* the content after one edit, and after two, each applied to what the edits
\* before it left
AfterOne(text, e1) == ApplyEdit(text, e1)

AfterTwo(text, e1, e2) == ApplyEdit(AfterOne(text, e1), e2)

\* C15: the step of a change handler that updates the buffer of a known note
\* leaves the content that the event's edits give when applied one by one in
\* their order, each to the content the edits before it left (for the event
\* that replaces the content by "[[B]]" and then its third character by "Z",
\* the content "[[Z]]"), with the event's version; and when the handler has
\* written the tree and is about to return, tree and links are those of that
\* buffer.
C15_BatchInOrder ==
    [][\A h \in Handlers :
          /\ (/\ hs[h].pc = "log" /\ hs[h].req.kind = "change" /\ hs'[h].pc # "log"
              /\ Known(hs[h].req)
              /\ notes[ReqId(hs[h].req).val].document.some)
                => LET old == notes[ReqId(hs[h].req).val].document.val.text
                       new == notes'[ReqId(hs[h].req).val].document.val
                       es == hs[h].req.changes
                   IN  /\ new.version = hs[h].req.version
                       /\ Len(es) = 1 => new.text = AfterOne(old, es[1])
                       /\ Len(es) = 2 => new.text = AfterTwo(old, es[1], es[2])
                       /\ es = BatchTwo => new.text = <<"[", "[", "Z", "]", "]">>
                       /\ hs'[h].pc = "edited"
          /\ (hs[h].pc = "parsed" /\ hs'[h].pc = "ret")
                => /\ hs'[h].r
                   /\ notes'[ReqId(hs[h].req).val].document
                          = notes[ReqId(hs[h].req).val].document
                   /\ notes'[ReqId(hs[h].req).val].tree
                          = Parser_parse(parserReady,
                                         notes[ReqId(hs[h].req).val].document.val.text)
                   /\ notes'[ReqId(hs[h].req).val].outlinks
                          = IF notes'[ReqId(hs[h].req).val].tree.some
                            THEN ExtractLinks(notes'[ReqId(hs[h].req).val].tree.val,
                                              notes[ReqId(hs[h].req).val].document.val.text)
                            ELSE {}]_vars

\* C15 witness: the event of two edits has been applied to a buffer other than
\* "[[B]]" and its handler is about to return, the note holding "[[Z]]" and
\* the link to Z.
C15_Witness ==
    \E h \in Handlers :
        /\ hs[h].pc = "ret"
        /\ hs[h].req.changes = BatchTwo
        /\ hs[h].r
        /\ notes[ReqId(hs[h].req).val].document.val.text = <<"[", "[", "Z", "]", "]">>
        /\ notes[ReqId(hs[h].req).val].outlinks = {MkNoteID(<<"Z">>, "Note")}
        /\ notes[ReqId(hs[h].req).val].document.val.version = MaxVersion


\* where a note is on its way: 0 without a buffer (Unloaded), 1 with a buffer
\* and no tree (Loaded), 2 with a buffer and a tree (Parsed)
Stage(note) == IF ~note.document.some THEN 0 ELSE IF ~note.tree.some THEN 1 ELSE 2

\* C16: a note keeps its buffer once it has one and has no tree without one;
\* the step of a change handler that writes the tree leaves the note Parsed,
\* with the tree of its buffer and the links of that tree, when the parse
\* gave a tree, and Loaded, without a tree, when the parse gave none, whatever
\* tree the note had; no other step moves a note.
C16_LoadedParsed ==
    [][\A id \in DOMAIN notes :
          /\ Stage(notes[id]) >= 1 => Stage(notes'[id]) >= 1
          /\ notes'[id].tree.some => notes'[id].document.some
          /\ \A h \in Handlers :
                (hs[h].pc = "parsed" /\ hs'[h].pc = "ret" /\ ReqId(hs[h].req) = Some(id))
                    => IF hs[h].new_tree.some
                       THEN /\ Stage(notes'[id]) = 2
                            /\ notes'[id].tree = Some(TreeOf(notes'[id].document.val.text))
                            /\ notes'[id].outlinks =
                                   ExtractLinks(notes'[id].tree.val,
                                                notes'[id].document.val.text)
                       ELSE Stage(notes'[id]) = 1
          /\ Stage(notes'[id]) # Stage(notes[id])
                => \E h \in Handlers :
                      hs[h].pc = "parsed" /\ hs'[h].pc = "ret"
                          /\ ReqId(hs[h].req) = Some(id)]_vars

\* C16 witness: a change handler is about to return from an edit of a note
\* that had a tree, the parse of the new buffer gave none, and the note has
\* its new buffer and no tree.
C16_Witness ==
    \E h \in Handlers :
        /\ hs[h].pc = "ret" /\ hs[h].req.kind = "change" /\ hs[h].r
        /\ prev # <<>>
        /\ prev[ReqId(hs[h].req).val].tree.some
        /\ Stage(notes[ReqId(hs[h].req).val]) = 1
        /\ notes[ReqId(hs[h].req).val].document.val.version = hs[h].req.version

\* C19: a note without a tree has no links.
C19_NoTreeNoLinks ==
    \A id \in DOMAIN notes : ~notes[id].tree.some => notes[id].outlinks = {}

\* C19 witness: a note that had a tree and links when a change event found it
\* has, after the failed parse of its new buffer, no tree and no links.
C19_Witness ==
    \E id \in DOMAIN notes :
        /\ prev # <<>>
        /\ prev[id].tree.some
        /\ prev[id].outlinks # {}
        /\ ~notes[id].tree.some
        /\ notes[id].outlinks = {}
        /\ notes[id].document # prev[id].document


\* C17 (as claimed): when a scan has finished, every note of the index has a
\* buffer and no tree.
C17_ScannedNoteHasNoTree ==
    scanned => \A id \in DOMAIN notes : notes[id].document.some /\ ~notes[id].tree.some

\* C17 (amended): when a scan has finished, every note of the index has the
\* buffer read from its file, at version 0, and already the tree parsed from
\* that buffer and the links of that tree (the note of B.list, whose file
\* holds "[[A (list)]]", the link to (A, List)); it has no tree only when
\* the parse gave none.
C17_ScannedNoteParsed ==
    scanned =>
        /\ \A id \in DOMAIN notes :
              /\ notes[id].document.some
              /\ notes[id].document.val.version = 0
              /\ \E e \in vault : notes[id].document.val.text = e.content
              /\ notes[id].tree.some <=> parserReady
              /\ notes[id].tree.some =>
                    /\ notes[id].tree.val = TreeOf(notes[id].document.val.text)
                    /\ notes[id].outlinks =
                           ExtractLinks(notes[id].tree.val, notes[id].document.val.text)
        /\ (parserReady /\ EntB \in vault)
              => notes[MkNoteID(<<"B">>, "List")].outlinks = {MkNoteID(<<"A">>, "List")}

\* C17 witness: a scan has finished and the note of B.list has its tree and
\* its link, with no change event dispatched.
C17_Witness ==
    /\ scanned
    /\ EntB \in vault
    /\ \A h \in Handlers : hs[h].pc = "idle"
    /\ notes[MkNoteID(<<"B">>, "List")].tree.some
    /\ notes[MkNoteID(<<"B">>, "List")].document.val.version = 0
    /\ notes[MkNoteID(<<"B">>, "List")].outlinks = {MkNoteID(<<"A">>, "List")}


\* the locks are held in one order
LockOrder ==
    \A h \in Handlers :
        /\ parserLock = h => (indexLock = h /\ hs[h].pc = "parsing")
        /\ hs[h].pc = "parsing" => parserLock = h
        /\ hs[h].pc \in {"log", "parsed", "ret"} => parserLock # h

\* when a handler has a request, some handler can take a step
SomeHandlerCanStep ==
    (\E h \in Handlers : hs[h].pc # "idle") => \E h \in Handlers : ENABLED HandlerStep(h)

\* C20: the parser's lock is held only by a handler that holds the index lock
\* and is between its buffer update and its write of the tree, so never by a
\* handler that waits for the index lock or that writes the tree; whenever a
\* handler has a request some handler can step; and a handler that holds the
\* index lock releases it.
C20_LockOrderAndProgress ==
    /\ [](LockOrder /\ SomeHandlerCanStep)
    /\ \A h \in Handlers : (indexLock = h) ~> (indexLock # h)

\* C20 witness: a change handler holds both locks while another handler waits
\* for the index lock.
C20_Witness ==
    \E g, h \in Handlers :
        /\ indexLock = h
        /\ parserLock = h
        /\ hs[g].pc = "log"

=============================================================================
